---- MODULE Spec2Model ----
(***************************************************************************)
(* Model of src/enexory_api.py: the catalog request and its line parser    *)
(* (get_all_data_types), the series request (get_data) and the pandas      *)
(* post-processing of main(): resample to 4 hours, removal of anomalies per *)
(* column, forward fill.                                                    *)
(*                                                                          *)
(* Numbers are exact rationals <<numerator, denominator>>; pandas' NaN is   *)
(* the pair with denominator 0.  The standard deviation is kept squared     *)
(* (the variance), so the comparison |x - mean| < 10 * std is made on the   *)
(* squares of its two non-negative sides.  Floating-point rounding is not   *)
(* modelled.  Timestamps are whole hours counted from midnight of the day   *)
(* of the first sample, which is where pandas anchors the 4-hour bins.      *)
(***************************************************************************)
EXTENDS Integers, Sequences, FiniteSets, TLC

\* ------------------------------------------------------------------ bounds
MaxRows == 3
MainRows == 2
BigRows == 110
MaxLines == 4

\* -------------------------------------------------------- program constants
StepHours == 4
DevFactor == 10
StatusOk == 200

\* ------------------------------------------------------- exact arithmetic
NaN == <<0, 0>>

IsNaN(v) == v[2] = 0

Abs(n) == IF n < 0 THEN -n ELSE n

RECURSIVE Gcd(_, _)
Gcd(a, b) == IF b = 0 THEN a ELSE Gcd(b, a % b)

Norm(n, d) == LET g == Gcd(Abs(n), d) IN <<n \div g, d \div g>>

Rat(n) == <<n, 1>>

RAdd(a, b) ==
    LET g == Gcd(a[2], b[2])
    IN  Norm(a[1] * (b[2] \div g) + b[1] * (a[2] \div g), (a[2] \div g) * b[2])

RNeg(a) == <<-a[1], a[2]>>

RSub(a, b) == RAdd(a, RNeg(b))

RMul(a, b) ==
    LET g1 == Gcd(Abs(a[1]), b[2])
        g2 == Gcd(Abs(b[1]), a[2])
    IN  Norm((a[1] \div g1) * (b[1] \div g2), (a[2] \div g2) * (b[2] \div g1))

RDivInt(a, k) == RMul(a, <<1, k>>)

RLess(a, b) ==
    LET g == Gcd(a[2], b[2])
    IN  a[1] * (b[2] \div g) < b[1] * (a[2] \div g)

RSq(a) == RMul(a, a)

\* ------------------------------------------------------------------ tables
\* A table is a sequence of rows [ts, cells]; cells has one value per column.
Column(t, c) == [i \in 1..Len(t) |-> t[i].cells[c]]

Present(vals) == SelectSeq(vals, LAMBDA v : ~IsNaN(v))

\* The sum of vals[lo..hi], by halves.
RECURSIVE SumRange(_, _, _)
SumRange(vals, lo, hi) ==
    IF lo > hi THEN Rat(0)
    ELSE IF lo = hi THEN vals[lo]
    ELSE LET mid == (lo + hi) \div 2
         IN  RAdd(SumRange(vals, lo, mid), SumRange(vals, mid + 1, hi))

SumSeq(vals) == SumRange(vals, 1, Len(vals))

\* Series.mean(): NaN values are skipped; NaN when nothing is left.
MeanZeroFill(vals) ==
    LET p == Present(vals)
    IN  IF Len(p) = 0 THEN Rat(0) ELSE RDivInt(SumSeq(p), Len(p))

Mean(vals) ==
    LET p == Present(vals)
    IN  IF Len(p) = 0 THEN NaN ELSE RDivInt(SumSeq(p), Len(p))

\* Series.std() squared: sample variance (ddof = 1), NaN below two values.
Variance(vals) ==
    LET p == Present(vals)
        m == Mean(vals)
        sq == [i \in 1..Len(p) |-> RSq(RSub(p[i], m))]
    IN  IF Len(p) < 2 THEN NaN ELSE RDivInt(SumSeq(sq), Len(p) - 1)

\* ---------------------------------------------------- Example 4: resample
Bucket(ts) == ts \div StepHours

SeqMin(s) == CHOOSE x \in {s[i] : i \in 1..Len(s)} : \A i \in 1..Len(s) : x <= s[i]

SeqMax(s) == CHOOSE x \in {s[i] : i \in 1..Len(s)} : \A i \in 1..Len(s) : x >= s[i]

RECURSIVE SetToSortedSeq(_)
SetToSortedSeq(S) ==
    IF S = {} THEN <<>>
    ELSE LET m == CHOOSE x \in S : \A y \in S : x <= y
         IN  <<m>> \o SetToSortedSeq(S \ {m})

\* The bins of df.resample(timedelta(hours=4)): every bin from the one of the
\* earliest sample to the one of the latest sample, empty bins included.
NonEmptyBins(t) == SetToSortedSeq({Bucket(t[i].ts) : i \in 1..Len(t)})

ResampleBins(t) ==
    IF Len(t) = 0 THEN <<>>
    ELSE LET b == [i \in 1..Len(t) |-> Bucket(t[i].ts)]
             lo == SeqMin(b)
             hi == SeqMax(b)
         IN  [k \in 1..(hi - lo + 1) |-> lo + k - 1]

InBucket(t, b) == SelectSeq(t, LAMBDA r : Bucket(r.ts) = b)

\* resampler.mean(): one row per bin, labelled with the bin's left edge.
Resample(t, ncols) ==
    LET bins == ResampleBins(t)
    IN  [k \in 1..Len(bins) |->
            [ts |-> bins[k] * StepHours,
             cells |-> [c \in 1..ncols |-> Mean(Column(InBucket(t, bins[k]), c))]]]

\* ------------------------------------------- Example 5: removing anomalies
\* abs(x - mean) < max_dev; a comparison with NaN on either side is False.
KeepOrMissing(x, mean, var) ==
    \/ IsNaN(x)
    \/ /\ ~IsNaN(mean)
       /\ ~IsNaN(var)
       /\ RLess(RSq(RSub(x, mean)), RMul(var, Rat(DevFactor * DevFactor)))

Keep(x, mean, var) ==
    /\ ~IsNaN(x)
    /\ ~IsNaN(mean)
    /\ ~IsNaN(var)
    /\ RLess(RSq(RSub(x, mean)), RMul(var, Rat(DevFactor * DevFactor)))

\* The table df[col].describe() is taken from: the current df.
StatsSourceOriginal(cur, orig) == orig

StatsSource(cur, orig) == cur

FilterRows(t, c, mean, var) == SelectSeq(t, LAMBDA r : Keep(r.cells[c], mean, var))

FilterCol(t, c, orig) ==
    LET src == Column(StatsSource(t, orig), c)
    IN  FilterRows(t, c, Mean(src), Variance(src))

\* ------------------------------------------------- Example 6: forward fill
RECURSIVE FirstKnown(_, _, _)
FirstKnown(t, i, c) ==
    IF i = 1 THEN t[1].cells[c]
    ELSE LET v == FirstKnown(t, i - 1, c) IN IF IsNaN(v) THEN t[i].cells[c] ELSE v

FillCellFirst(t, i, c) == IF ~IsNaN(t[i].cells[c]) THEN t[i].cells[c] ELSE FirstKnown(t, i, c)

RECURSIVE FillCell(_, _, _)
FillCell(t, i, c) ==
    IF ~IsNaN(t[i].cells[c]) THEN t[i].cells[c]
    ELSE IF i = 1 THEN NaN
    ELSE FillCell(t, i - 1, c)

Ffill(t, ncols) ==
    [i \in 1..Len(t) |-> [ts |-> t[i].ts, cells |-> [c \in 1..ncols |-> FillCell(t, i, c)]]]

\* --------------------------------------------------- catalog line parsing
\* A string is a sequence of one-character strings; line.split(';') is a
\* non-empty sequence of such fields.
F_api_id == <<"a", "p", "i", "_", "i", "d">>
F_data_name == <<"d", "a", "t", "a", "_", "n", "a", "m", "e">>

DigitVal ==
    ("0" :> 0) @@ ("1" :> 1) @@ ("2" :> 2) @@ ("3" :> 3) @@ ("4" :> 4) @@
    ("5" :> 5) @@ ("6" :> 6) @@ ("7" :> 7) @@ ("8" :> 8) @@ ("9" :> 9)

IsDigit(ch) == ch \in DOMAIN DigitVal

RECURSIVE LStrip(_)
LStrip(s) == IF s # <<>> /\ Head(s) = " " THEN LStrip(Tail(s)) ELSE s

RECURSIVE RStrip(_)
RStrip(s) == IF s # <<>> /\ s[Len(s)] = " " THEN RStrip(SubSeq(s, 1, Len(s) - 1)) ELSE s

RECURSIVE DigitsValue(_, _)
DigitsValue(s, acc) ==
    IF s = <<>> THEN acc
    ELSE IF Head(s) = "_" THEN DigitsValue(Tail(s), acc)
    ELSE DigitsValue(Tail(s), 10 * acc + DigitVal[Head(s)])

\* Python's int(str): surrounding blanks and one sign are accepted, then
\* digits, optionally grouped by single underscores; anything else raises.
PyInt(s) ==
    LET u == RStrip(LStrip(s))
        signed == u # <<>> /\ Head(u) \in {"+", "-"}
        body == IF signed THEN Tail(u) ELSE u
        wellFormed ==
            /\ body # <<>>
            /\ \A i \in 1..Len(body) : IsDigit(body[i]) \/ body[i] = "_"
            /\ IsDigit(body[1])
            /\ IsDigit(body[Len(body)])
            /\ \A i \in 1..(Len(body) - 1) : ~(body[i] = "_" /\ body[i + 1] = "_")
        mag == DigitsValue(body, 0)
    IN  IF wellFormed
        THEN [ok |-> TRUE, val |-> IF signed /\ Head(u) = "-" THEN -mag ELSE mag]
        ELSE [ok |-> FALSE, val |-> 0]

\* list.index(x): position of the first occurrence, 0 when it raises ValueError.
IndexOfOrLast(flds, x) ==
    IF \E i \in 1..Len(flds) : flds[i] = x
    THEN CHOOSE i \in 1..Len(flds) : flds[i] = x /\ \A j \in 1..(i - 1) : flds[j] # x
    ELSE Len(flds)

IndexOf(flds, x) ==
    IF \E i \in 1..Len(flds) : flds[i] = x
    THEN CHOOSE i \in 1..Len(flds) : flds[i] = x /\ \A j \in 1..(i - 1) : flds[j] # x
    ELSE 0

Max2(a, b) == IF a > b THEN a ELSE b

\* len(fields) > max([api_id_index, data_name_index]), on 1-based positions.
LongEnoughStrict(flds, ai, ni) == Len(flds) > Max2(ai, ni)

LongEnough(flds, ai, ni) == Len(flds) >= Max2(ai, ni)

\* ------------------------------------------------------------ input sets
Statuses == {200, 403, 500}
Texts == {"body1", "body2"}

HeaderTokens == {F_api_id, F_data_name, <<"x">>}
RowTokens == {<<"7">>, <<"0", "8">>, <<"x">>}

LinesOver(tokens, n) == UNION {[1..k -> tokens] : k \in 1..n}

HeaderLines == LinesOver(HeaderTokens, 3)
RowLines == LinesOver(RowTokens, 3)

MainHeaderLines == {<<F_api_id, F_data_name>>, <<F_data_name>>}
MainRowLines == {<<<<"7">>, <<"a">>>>, <<<<"8">>, <<"b">>>>, <<<<"x">>, <<"a">>>>, <<<<"7">>>>}

\* args.data_id: <<>> stands for None (no -id option given).
ArgSets == {<<>>, <<7>>, <<7, 8>>, <<9>>}

Times == {1, 3, 9}
Cells == {NaN, Rat(1), Rat(2)}

Sorted(t) == \A i \in 1..(Len(t) - 1) : t[i].ts <= t[i + 1].ts

TablesOf(ncols, maxRows) ==
    UNION {{t \in [1..n -> [ts : Times, cells : [1..ncols -> Cells]]] : Sorted(t)} :
              n \in 1..maxRows}

\* One sample per bin; column 1 is 0 except in row 1, column 2 is 0 except in
\* rows 1 and 2.
BigTable ==
    [i \in 1..BigRows |->
        [ts |-> (i - 1) * StepHours,
         cells |-> <<Rat(IF i = 1 THEN 1 ELSE 0), Rat(IF i \in {1, 2} THEN 1 ELSE 0)>>]]

\* ------------------------------------------------------------------- state
VARIABLES
    pc,               \* position of main()
    args_data_id,     \* args.data_id
    response,         \* the last response received, [status_code, text]
    err,              \* the exception that ended the run
    catalog_posts,    \* requests.post calls made by get_all_data_types
    series_posts,     \* requests.post calls made by get_data
    header,           \* get_all_data_types: header
    api_id_index,     \* get_all_data_types: api_id_index (1-based)
    data_name_index,  \* get_all_data_types: data_name_index (1-based)
    data_name_by_id,  \* the catalog being built, then main's copy
    warnings,         \* logging.warning calls made
    line_no,          \* lines of the catalog response consumed
    fields,           \* get_all_data_types: fields of the line last consumed
    parsed,           \* history: what each consumed data line was
    data_names,       \* main: data_names, the columns of df
    df,               \* main: df
    df_in,            \* history: the table the last stage or loop turn received
    df_loop,          \* history: the table the anomaly loop started from
    col,              \* the anomaly loop's column position
    removed           \* row_count - new_row_count of the last loop turn

vars == <<pc, args_data_id, response, err, catalog_posts, series_posts, header,
          api_id_index, data_name_index, data_name_by_id, warnings, line_no, fields,
          parsed, data_names, df, df_in, df_loop, col, removed>>

netVars == <<response, catalog_posts, series_posts>>
parseVars == <<header, api_id_index, data_name_index, warnings, line_no, fields, parsed>>
tableVars == <<df, df_in, df_loop, col, removed>>

NoErr == [kind |-> "none", status_code |-> 0, text |-> ""]
NoResponse == [status_code |-> 0, text |-> ""]
EmptyDict == <<>>

NCols == Len(data_names)

Init ==
    /\ pc = "start"
    /\ args_data_id \in ArgSets
    /\ response = NoResponse
    /\ err = NoErr
    /\ catalog_posts = 0
    /\ series_posts = 0
    /\ header = TRUE
    /\ api_id_index = 0
    /\ data_name_index = 0
    /\ data_name_by_id = EmptyDict
    /\ warnings = 0
    /\ line_no = 0
    /\ fields = <<>>
    /\ parsed = <<>>
    /\ data_names = <<>>
    /\ df = <<>>
    /\ df_in = <<>>
    /\ df_loop = <<>>
    /\ col = 0
    /\ removed = 0

\* ------------------------------------------------------ get_all_data_types
\* check_response_status: raises unless the status code is 200.
RaisesOnServerError(r) == r.status_code >= 500

RaisesOnStatus(r) == r.status_code # StatusOk

StatusError(r) == [kind |-> "Exception", status_code |-> r.status_code, text |-> r.text]

Responses == [status_code : Statuses, text : Texts]

ConnectionError == [kind |-> "ConnectionError", status_code |-> 0, text |-> ""]

\* requests.post(API_ENDPOINT, json=data) in get_all_data_types: a response,
\* or the exception of a request that got none (NoResponse).
CatalogPost ==
    /\ pc = "start"
    /\ catalog_posts' = catalog_posts + 1
    /\ \E r \in Responses \cup {NoResponse} :
        IF r = NoResponse
        THEN /\ err' = ConnectionError
             /\ pc' = "aborted"
             /\ UNCHANGED response
        ELSE /\ response' = r
             /\ pc' = "catalog_check"
             /\ UNCHANGED err
    /\ UNCHANGED <<args_data_id, series_posts, parseVars, data_name_by_id,
                   data_names, tableVars>>

\* check_response_status(response), then the set-up of the line loop.
CatalogCheck ==
    /\ pc = "catalog_check"
    /\ IF RaisesOnStatus(response)
       THEN /\ err' = StatusError(response)
            /\ pc' = "aborted"
            /\ UNCHANGED <<header, data_name_by_id>>
       ELSE /\ pc' = "parse"
            /\ header' = TRUE
            /\ data_name_by_id' = EmptyDict
            /\ UNCHANGED err
    /\ UNCHANGED <<args_data_id, netVars, api_id_index, data_name_index, warnings,
                   line_no, fields, parsed, data_names, tableVars>>

Entry(kind, id, name) == [kind |-> kind, id |-> id, name |-> name]

\* One turn of "for line in lines" on the fields of the next line.
ParseLine(headerLines, rowLines) ==
    /\ pc = "parse"
    /\ line_no < MaxLines
    /\ \E f \in (IF header THEN headerLines ELSE rowLines) :
        /\ fields' = f
        /\ line_no' = line_no + 1
        /\ header' = FALSE
        /\ IF header
           THEN IF IndexOf(f, F_data_name) = 0 \/ IndexOf(f, F_api_id) = 0
                THEN /\ err' = [kind |-> "ValueError", status_code |-> 0, text |-> ""]
                     /\ pc' = "aborted"
                     /\ UNCHANGED <<api_id_index, data_name_index, data_name_by_id,
                                    warnings, parsed>>
                ELSE /\ data_name_index' = IndexOf(f, F_data_name)
                     /\ api_id_index' = IndexOf(f, F_api_id)
                     /\ UNCHANGED <<pc, err, data_name_by_id, warnings, parsed>>
           ELSE /\ UNCHANGED <<pc, err, api_id_index, data_name_index>>
                /\ IF LongEnough(f, api_id_index, data_name_index)
                   THEN LET id == PyInt(f[api_id_index])
                            name == f[data_name_index]
                        IN  IF id.ok
                            THEN /\ data_name_by_id' = (id.val :> name) @@ data_name_by_id
                                 /\ parsed' = Append(parsed, Entry("ok", id.val, name))
                                 /\ UNCHANGED warnings
                            ELSE /\ warnings' = warnings + 1
                                 /\ parsed' = Append(parsed, Entry("nonint", 0, <<>>))
                                 /\ UNCHANGED data_name_by_id
                   ELSE /\ parsed' = Append(parsed, Entry("short", 0, <<>>))
                        /\ UNCHANGED <<data_name_by_id, warnings>>
    /\ UNCHANGED <<args_data_id, netVars, data_names, tableVars>>

\* The loop runs out of lines (split always yields one at least) and the
\* function returns data_name_by_id; its locals are gone.
ParseReturn ==
    /\ pc = "parse"
    /\ ~header
    /\ pc' = "select"
    /\ header' = TRUE
    /\ api_id_index' = 0
    /\ data_name_index' = 0
    /\ line_no' = 0
    /\ fields' = <<>>
    /\ parsed' = <<>>
    /\ UNCHANGED <<args_data_id, netVars, err, data_name_by_id, warnings, data_names,
                   tableVars>>

CatalogParseLine == ParseLine(HeaderLines, RowLines)

MainParseLine == ParseLine(MainHeaderLines, MainRowLines)

\* -------------------------------------------------------------------- main
\* "if args.data_id:" is false: the catalog is printed and main returns.
PrintCatalog ==
    /\ pc = "select"
    /\ args_data_id = <<>>
    /\ pc' = "done"
    /\ UNCHANGED <<args_data_id, netVars, err, parseVars, data_name_by_id, data_names,
                   tableVars>>

\* data_names = [data_name_by_id[data_id] for data_id in args.data_id]
LookupNames ==
    /\ pc = "select"
    /\ args_data_id # <<>>
    /\ IF \A i \in 1..Len(args_data_id) : args_data_id[i] \in DOMAIN data_name_by_id
       THEN /\ data_names' = [i \in 1..Len(args_data_id) |-> data_name_by_id[args_data_id[i]]]
            /\ pc' = "series_post"
            /\ UNCHANGED err
       ELSE /\ err' = [kind |-> "KeyError", status_code |-> 0, text |-> ""]
            /\ pc' = "aborted"
            /\ UNCHANGED data_names
    /\ UNCHANGED <<args_data_id, netVars, parseVars, data_name_by_id, tableVars>>

\* requests.post(API_ENDPOINT, json=data) in get_data.
SeriesPost ==
    /\ pc = "series_post"
    /\ series_posts' = series_posts + 1
    /\ \E r \in Responses \cup {NoResponse} :
        IF r = NoResponse
        THEN /\ err' = ConnectionError
             /\ pc' = "aborted"
             /\ UNCHANGED response
        ELSE /\ response' = r
             /\ pc' = "series_check"
             /\ UNCHANGED err
    /\ UNCHANGED <<args_data_id, catalog_posts, parseVars, data_name_by_id,
                   data_names, tableVars>>

\* check_response_status(response) in get_data.
SeriesCheck ==
    /\ pc = "series_check"
    /\ IF RaisesOnStatus(response)
       THEN /\ err' = StatusError(response)
            /\ pc' = "aborted"
       ELSE /\ pc' = "decompress"
            /\ UNCHANGED err
    /\ UNCHANGED <<args_data_id, netVars, parseVars, data_name_by_id, data_names,
                   tableVars>>

\* zlib.decompress(response.content, -zlib.MAX_WBITS): raises zlib.error on a
\* payload that is not raw deflate.
Decompress ==
    /\ pc = "decompress"
    /\ \E valid \in BOOLEAN :
        IF valid
        THEN /\ pc' = "read_csv"
             /\ UNCHANGED err
        ELSE /\ err' = [kind |-> "zlib.error", status_code |-> 0, text |-> ""]
             /\ pc' = "aborted"
    /\ UNCHANGED <<args_data_id, netVars, parseVars, data_name_by_id, data_names,
                   tableVars>>

\* pd.read_csv(...): the table of the response, one column per data name, its
\* rows in the order of the text (at least one data row, timestamps not
\* decreasing).
ReadCsv ==
    /\ pc = "read_csv"
    /\ df' \in TablesOf(NCols, MainRows)
    /\ pc' = "resample"
    /\ UNCHANGED <<args_data_id, netVars, err, parseVars, data_name_by_id, data_names,
                   df_in, df_loop, col, removed>>

\* Example 4: df = df.resample(timedelta(hours=4)).mean()
ResampleStage ==
    /\ pc = "resample"
    /\ df' = Resample(df, NCols)
    /\ df_in' = df
    /\ df_loop' = df'
    /\ col' = 1
    /\ pc' = "outlier"
    /\ UNCHANGED <<args_data_id, netVars, err, parseVars, data_name_by_id, data_names,
                   removed>>

\* Example 5: one turn of "for col in df".
OutlierStep ==
    /\ pc = "outlier"
    /\ df' = FilterCol(df, col, df_loop)
    /\ df_in' = df
    /\ removed' = Len(df) - Len(df')
    /\ IF col = NCols
       THEN pc' = "ffill" /\ UNCHANGED col
       ELSE col' = col + 1 /\ UNCHANGED pc
    /\ UNCHANGED <<args_data_id, netVars, err, parseVars, data_name_by_id, data_names,
                   df_loop>>

\* Example 6: df.fillna(method='ffill', inplace=True)
FfillStage ==
    /\ pc = "ffill"
    /\ df' = Ffill(df, NCols)
    /\ df_in' = df
    /\ pc' = "done"
    /\ UNCHANGED <<args_data_id, netVars, err, parseVars, data_name_by_id, data_names,
                   df_loop, col, removed>>

Next ==
    \/ CatalogPost
    \/ CatalogCheck
    \/ MainParseLine
    \/ ParseReturn
    \/ PrintCatalog
    \/ LookupNames
    \/ SeriesPost
    \/ SeriesCheck
    \/ Decompress
    \/ ReadCsv
    \/ ResampleStage
    \/ OutlierStep
    \/ FfillStage

Spec == Init /\ [][Next]_vars

\* ----------------------------------------- get_all_data_types on its own
CatalogNext ==
    \/ CatalogPost
    \/ CatalogCheck
    \/ CatalogParseLine
    \/ ParseReturn

CatalogInit == Init /\ args_data_id = <<>>

SpecCatalog == CatalogInit /\ [][CatalogNext]_vars

\* --------------------------------------------- the three stages on their own
\* A stage applied to any two-column table, with main at that stage.
StageInit(stage, tables) ==
    /\ pc = stage
    /\ args_data_id = <<7, 8>>
    /\ response = [status_code |-> StatusOk, text |-> "body1"]
    /\ err = NoErr
    /\ catalog_posts = 1
    /\ series_posts = 1
    /\ header = TRUE
    /\ api_id_index = 0
    /\ data_name_index = 0
    /\ data_name_by_id = (7 :> <<"a">>) @@ (8 :> <<"b">>)
    /\ warnings = 0
    /\ line_no = 0
    /\ fields = <<>>
    /\ parsed = <<>>
    /\ data_names = <<<<"a">>, <<"b">>>>
    /\ df \in tables
    /\ df_in = <<>>
    /\ df_loop = IF stage = "outlier" THEN df ELSE <<>>
    /\ col = IF stage = "resample" THEN 0 ELSE 1
    /\ removed = 0

ResampleInit == StageInit("resample", TablesOf(2, MaxRows))
ResampleNext == ResampleStage
SpecResample == ResampleInit /\ [][ResampleNext]_vars

OutlierInit == StageInit("outlier", TablesOf(2, MaxRows) \cup {BigTable})
OutlierNext == OutlierStep
SpecOutlier == OutlierInit /\ [][OutlierNext]_vars

FfillInit == StageInit("ffill", TablesOf(2, MaxRows))
FfillNext == FfillStage
SpecFfill == FfillInit /\ [][FfillNext]_vars

\* ================================================================== claims
\* The column the last turn of the anomaly loop filtered (0: no turn yet).
LastCol == IF pc = "ffill" THEN col ELSE col - 1

StepDone == pc \in {"outlier", "ffill"} /\ LastCol >= 1

InMean == Mean(Column(df_in, LastCol))
InVariance == Variance(Column(df_in, LastCol))

\* |x - mu| >= tau with x, mu and tau all defined.
DeviatesAtLeast(x, mean, var) ==
    /\ ~IsNaN(x)
    /\ ~IsNaN(mean)
    /\ ~IsNaN(var)
    /\ ~RLess(RSq(RSub(x, mean)), RMul(var, Rat(DevFactor * DevFactor)))

\* C1: a turn of the anomaly loop removes a row if and only if its value in
\* the turn's column is present and at least 10 standard deviations away from
\* the column's mean; rows whose value is missing are kept.
C1_RemovedIffPresentOutlier ==
    StepDone =>
        df = SelectSeq(df_in, LAMBDA r : ~DeviatesAtLeast(r.cells[LastCol], InMean, InVariance))

\* C2: a turn on a column whose present values are all identical (standard
\* deviation 0) removes no row.
C2_ZeroVarianceKeepsAll ==
    (StepDone /\ InVariance = Rat(0)) => df = df_in

\* ------------------------------------------------------------------- C3
MaxOf(S) == CHOOSE x \in S : \A y \in S : y <= x

KnownUpTo(t, i, c) == {j \in 1..i : ~IsNaN(t[j].cells[c])}

\* C3: forward fill keeps the rows and their timestamps; a cell keeps its
\* value when present, else takes the value of the nearest earlier row where
\* the column is present, else stays missing.
C3_ForwardFill ==
    pc = "done" =>
        /\ Len(df) = Len(df_in)
        /\ \A i \in 1..Len(df_in) :
            /\ df[i].ts = df_in[i].ts
            /\ DOMAIN df[i].cells = 1..NCols
            /\ \A c \in 1..NCols :
                LET known == KnownUpTo(df_in, i, c)
                IN  IF known = {} THEN IsNaN(df[i].cells[c])
                    ELSE df[i].cells[c] = df_in[MaxOf(known)].cells[c]

\* A cell filled from the nearest of two different earlier values, and a
\* leading missing cell left missing.
C3_Witness ==
    /\ pc = "done"
    /\ \E c \in 1..NCols : \E i \in 3..Len(df_in) :
        /\ IsNaN(df_in[i].cells[c])
        /\ ~IsNaN(df_in[i - 1].cells[c])
        /\ ~IsNaN(df_in[1].cells[c])
        /\ df_in[1].cells[c] # df_in[i - 1].cells[c]
        /\ df[i].cells[c] = df_in[i - 1].cells[c]
    /\ \E c \in 1..NCols : IsNaN(df_in[1].cells[c]) /\ IsNaN(df[1].cells[c])

\* ------------------------------------------------------------------- C4
Resampled == pc = "outlier" /\ col = 1 /\ df = df_loop

RowsIn(t, b) == {i \in 1..Len(t) : Bucket(t[i].ts) = b}

RECURSIVE SetSum(_, _, _)
SetSum(t, c, S) ==
    IF S = {} THEN Rat(0)
    ELSE LET i == CHOOSE j \in S : TRUE
         IN  RAdd(t[i].cells[c], SetSum(t, c, S \ {i}))

\* C4: each cell of the resampled table is the arithmetic mean of the present
\* input values of its column in its bucket, and is missing when the bucket
\* holds no present value of the column.
C4_BucketMean ==
    Resampled =>
        \A k \in 1..Len(df) : \A c \in 1..NCols :
            LET known == {i \in RowsIn(df_in, Bucket(df[k].ts)) : ~IsNaN(df_in[i].cells[c])}
            IN  IF known = {} THEN IsNaN(df[k].cells[c])
                ELSE /\ ~IsNaN(df[k].cells[c])
                     /\ RMul(df[k].cells[c], Rat(Cardinality(known))) = SetSum(df_in, c, known)

\* A bucket with rows but no present value of a column gives a missing cell,
\* and a mean is taken over two different values next to a missing one.
C4_Witness ==
    /\ Resampled
    /\ \E k \in 1..Len(df) : \E c \in 1..NCols :
        /\ RowsIn(df_in, Bucket(df[k].ts)) # {}
        /\ IsNaN(df[k].cells[c])
    /\ \E k \in 1..Len(df) : \E c \in 1..NCols :
        /\ df[k].cells[c] = <<3, 2>>
        /\ \E i \in RowsIn(df_in, Bucket(df[k].ts)) : IsNaN(df_in[i].cells[c])

\* ------------------------------------------------------------------- C5
InBuckets == {Bucket(df_in[i].ts) : i \in 1..Len(df_in)}

Increasing == \A k \in 1..(Len(df) - 1) : df[k].ts < df[k + 1].ts

\* C5 as stated: one output row for each bucket holding an input row, none
\* for a bucket holding no input row, in increasing order of bucket start.
C5_OnlyNonEmptyBuckets ==
    Resampled =>
        /\ {Bucket(df[k].ts) : k \in 1..Len(df)} = InBuckets
        /\ Len(df) = Cardinality(InBuckets)
        /\ Increasing

\* C5 amended: one output row for each 4-hour bucket from the bucket of the
\* earliest input row to the bucket of the latest one, the buckets in between
\* that hold no input row included, labelled with the bucket's start and in
\* increasing order of it.
C5_EveryBucketInRange ==
    Resampled =>
        LET lo == CHOOSE b \in InBuckets : \A x \in InBuckets : b <= x
            hi == CHOOSE b \in InBuckets : \A x \in InBuckets : b >= x
        IN  /\ Len(df) = hi - lo + 1
            /\ \A k \in 1..Len(df) : df[k].ts = (lo + k - 1) * StepHours
            /\ Increasing

\* An output row for a bucket that holds no input row.
C5_Witness ==
    /\ Resampled
    /\ \E k \in 1..Len(df) : RowsIn(df_in, Bucket(df[k].ts)) = {}

\* ------------------------------------------------------------------- C6
HasField(flds, x) == \E i \in 1..Len(flds) : flds[i] = x

\* C6: when the first line of a status-200 catalog response lacks the field
\* "data_name" or the field "api_id", get_all_data_types fails (the ValueError
\* of list.index) and no catalog is built or returned.
C6_MissingHeaderFieldFails ==
    (line_no = 1 /\ ~(HasField(fields, F_data_name) /\ HasField(fields, F_api_id))) =>
        /\ pc = "aborted"
        /\ err.kind = "ValueError"
        /\ data_name_by_id = EmptyDict

\* The header names data_name but not api_id, after a status of 200.
C6_Witness ==
    /\ pc = "aborted"
    /\ response.status_code = StatusOk
    /\ line_no = 1
    /\ HasField(fields, F_data_name)
    /\ ~HasField(fields, F_api_id)
    /\ err.kind = "ValueError"

\* ------------------------------------------------------------------- C7
\* The integers among the id fields the model draws.
IntTokens == {<<"7">>, <<"0", "8">>}
TokenValue(f) == IF f = <<"7">> THEN 7 ELSE 8

OkLines == {i \in 1..Len(parsed) : parsed[i].kind = "ok"}
SkippedLines == {i \in 1..Len(parsed) : parsed[i].kind # "ok"}
LastWithId(id) == MaxOf({i \in OkLines : parsed[i].id = id})

\* What the data line last consumed must have been recorded as.
ExpectedEntry ==
    IF Len(fields) < Max2(api_id_index, data_name_index) THEN Entry("short", 0, <<>>)
    ELSE IF fields[api_id_index] \notin IntTokens THEN Entry("nonint", 0, <<>>)
    ELSE Entry("ok", TokenValue(fields[api_id_index]), fields[data_name_index])

C7_ParseInv ==
    (pc = "parse" /\ ~header) =>
        /\ err = NoErr
        /\ Len(parsed) = line_no - 1
        /\ line_no >= 2 => parsed[Len(parsed)] = ExpectedEntry
        /\ warnings = Cardinality({i \in 1..Len(parsed) : parsed[i].kind = "nonint"})
        /\ DOMAIN data_name_by_id = {parsed[i].id : i \in OkLines}
        /\ \A i \in OkLines :
            data_name_by_id[parsed[i].id] = parsed[LastWithId(parsed[i].id)].name

C7_ReturnStep == (pc = "parse" /\ pc' = "select") => data_name_by_id' = data_name_by_id

\* C7 amended: a data line too short to hold both columns, or whose id field
\* is not an integer, is skipped without failing the operation (one warning
\* per non-integer id) and adds no entry; every well-formed line before and
\* after it yields its id -> name entry in the returned catalog, except that
\* of several well-formed lines with the same integer id only the last one's
\* name is in it.
C7_SkipsAndLastWins == []C7_ParseInv /\ [][C7_ReturnStep]_vars

\* C7 as stated: with a skipped line among them, every well-formed line has
\* its own id -> name entry in the catalog.
C7_EveryLineKeepsItsEntry ==
    (pc = "parse" /\ SkippedLines # {}) =>
        /\ err = NoErr
        /\ \A i \in OkLines :
            /\ parsed[i].id \in DOMAIN data_name_by_id
            /\ data_name_by_id[parsed[i].id] = parsed[i].name

\* A line with a non-integer id between two well-formed lines of different
\* ids, both of which are in the catalog, and one warning.
C7_Witness ==
    /\ pc = "parse"
    /\ Len(parsed) = 3
    /\ parsed[1].kind = "ok"
    /\ parsed[2].kind = "nonint"
    /\ parsed[3].kind = "ok"
    /\ parsed[1].id # parsed[3].id
    /\ data_name_by_id[parsed[1].id] = parsed[1].name
    /\ data_name_by_id[parsed[3].id] = parsed[3].name
    /\ warnings = 1

\* ------------------------------------------------------------------- C8
C8_Inv ==
    /\ catalog_posts <= 1
    /\ series_posts <= 1
    /\ series_posts = 1 => catalog_posts = 1
    /\ (pc = "aborted" /\ err.kind = "Exception") =>
        /\ err.status_code # StatusOk
        /\ err.status_code = response.status_code
        /\ err.text = response.text
        /\ df = <<>>
        /\ series_posts = 0 => (data_name_by_id = EmptyDict /\ data_names = <<>>)

C8_Step ==
    /\ series_posts' # series_posts =>
        /\ catalog_posts = 1
        /\ response.status_code = StatusOk
        /\ err = NoErr
        /\ Len(data_names) = Len(args_data_id)
        /\ \A i \in 1..Len(args_data_id) : data_names[i] = data_name_by_id[args_data_id[i]]
    /\ (pc \in {"catalog_check", "series_check"} /\ response.status_code # StatusOk) =>
        /\ pc' = "aborted"
        /\ err' = [kind |-> "Exception", status_code |-> response.status_code,
                   text |-> response.text]
        /\ UNCHANGED <<netVars, data_name_by_id, data_names, tableVars, parsed, line_no>>
    /\ pc # "aborted"

\* C8: in one run the catalog request and the series request are issued at
\* most once each, the series request only after the catalog response had
\* status 200 and was parsed; a response with another status ends the run with
\* an error carrying its status code and body, and nothing runs after it.
C8_OnceEachAndFailFast == []C8_Inv /\ [][C8_Step]_vars

\* The series request failed with status 500 after a successful catalog request.
C8_Witness ==
    /\ pc = "aborted"
    /\ err.kind = "Exception"
    /\ err.status_code = 500
    /\ catalog_posts = 1
    /\ series_posts = 1

\* ------------------------------------------------------------------- C9
\* The anomaly loop as a fold over a column order, each turn on the rows the
\* turns before it left.
RECURSIVE OutlierLoop(_, _)
OutlierLoop(t, order) ==
    IF order = <<>> THEN t
    ELSE LET c == Head(order)
             vals == Column(t, c)
         IN  OutlierLoop(FilterRows(t, c, Mean(vals), Variance(vals)), Tail(order))

\* C9: the mean and standard deviation a turn uses are those of the rows that
\* survived the turns before it, and the loop is the fold of the turns.
C9_SequentialFold ==
    /\ StepDone => df = FilterRows(df_in, LastCol, InMean, InVariance)
    /\ pc = "ffill" => df = OutlierLoop(df_loop, [c \in 1..NCols |-> c])

GenuineOutlier(t, i, c) ==
    LET vals == Column(t, c)
    IN  /\ ~IsNaN(Variance(vals))
        /\ RLess(Rat(0), Variance(vals))
        /\ DeviatesAtLeast(t[i].cells[c], Mean(vals), Variance(vals))

\* A two-column table with an outlier row of column 1 and, once that row is
\* gone, an outlier row of column 2 at another timestamp, for which the
\* orders [1, 2] and [2, 1] leave different rows.
C9_Witness ==
    /\ pc = "ffill"
    /\ NCols = 2
    /\ OutlierLoop(df_loop, <<1, 2>>) # OutlierLoop(df_loop, <<2, 1>>)
    /\ df = OutlierLoop(df_loop, <<1, 2>>)
    /\ \E i \in 1..Len(df_loop) : \E j \in 1..Len(df_in) :
        /\ GenuineOutlier(df_loop, i, 1)
        /\ GenuineOutlier(df_in, j, 2)
        /\ df_loop[i].ts # df_in[j].ts

\* ------------------------------------------------------------------ C10
AllPresent(t) == \A i \in 1..Len(t) : \A c \in 1..NCols : ~IsNaN(t[i].cells[c])

====
